---- MODULE Spec2Model ----
(***************************************************************************)
(* Escrow lifecycle engine of the Telegram/Stripe escrow bot.              *)
(*                                                                         *)
(* State: the rows of the relational store (deals, milestones, users,      *)
(* referrals), the in-memory job queue of the bot application, the         *)
(* conversation data of the milestone-creation dialogue, the payment       *)
(* events Stripe may (re)deliver, and the position of the two execution    *)
(* contexts between their read of a row and their commit: the webhook      *)
(* server thread (main.py starts it as its own thread) and a scheduled job *)
(* on the bot's event loop.  gw is the log of calls received by the        *)
(* payment gateway (an observer of the program, not a field of it).        *)
(*                                                                         *)
(* Party actions arrive as callback queries "action:id"; the handlers read *)
(* nothing but that string and the sender, so any action can be invoked on *)
(* any id at any time (a button stays clickable after the deal moved on).  *)
(* Amounts (floats in the code) are counted in tenths of a cent; the       *)
(* gateway is called in whole cents.  admin_notes, titles and message      *)
(* texts carry no control flow and are left out.                           *)
(***************************************************************************)
EXTENDS Integers, Sequences, FiniteSets, TLC

\* ---------------------------------------------------------------- bounds
MaxJobs == 2        \* live jobs the queue may hold for one deal
MaxCalls == 2       \* transfer/refund calls the gateway log keeps per deal
MaxMilestones == 2  \* milestones of one project
MaxDisputes == 2    \* Dispute rows kept for one deal
MaxReviews == 3     \* Review rows kept in the table

\* -------------------------------------------------------------- universe
Users == {"u1", "u2", "u3"}
DealIds == {1, 2}
MsIds == 1..MaxMilestones
TradeAmounts == {1000}
MilestoneAmounts == {40, 60}
SplitAmounts == {0, 700, 995, 1000, 1500}
NULL == "null"

Statuses == {"pending", "funded", "disputed", "completed", "cancelled"}
TradeStatuses == {NULL, "funded", "shipped", "completed", "refunded"}
JobTypes == {"expire_offer", "check_unshipped_trades", "check_unconfirmed_deliveries"}

VARIABLES
    deals,       \* Deal rows:      DealIds -> record (deal_type = NULL: no such row)
    milestones,  \* Milestone rows: MsIds -> record (deal_id = 0: no such row)
    users,       \* User rows:      Users -> [stripe_account_id, free_trades_remaining]
    referrals,   \* Referral rows:  referred user -> [referrer_id, reward_claimed]
    jobs,        \* job queue: <<job name>> -> [job_type -> number of live jobs]
    gw,          \* gateway log: per deal / per milestone calls, cents and payee
    conv,        \* milestone dialogue: [state, milestones (user_data list)]
    evt,         \* last checkout session of an entity: "none" | "open" (created,
                 \* payable) | "paid" (completed, its event delivered at least once)
    wh,          \* webhook thread between its guard and its commit
    bt,          \* scheduled job between its guard and its commit
    disputes,    \* Dispute rows: deal -> number of rows naming it
    app_fee,     \* application_fee_cents of the deal's last checkout session
    reviews      \* Review rows in insertion order

vars == <<deals, milestones, users, referrals, jobs, gw, conv, evt, wh, bt, disputes, app_fee, reviews>>

\* ------------------------------------------------------------ the records
NoJob == <<NULL, 0>>

NoDeal == [deal_type |-> NULL, creator_id |-> NULL, counterparty_id |-> NULL,
           total_amount |-> 0, status |-> NULL, trade_status |-> NULL,
           payment_intent_id |-> NULL, auto_job_id |-> NoJob]

NoMilestone == [deal_id |-> 0, amount |-> 0, payment_intent_id |-> NULL,
                is_released |-> FALSE]

NoUser == [stripe_account_id |-> NULL, free_trades_remaining |-> 0]

NoReferral == [referrer_id |-> NULL, reward_claimed |-> FALSE]

\* An entity a payment event can name in its metadata.
DealEntity(d) == <<"deal", d>>
MsEntity(m) == <<"milestone", m>>
Entities == {DealEntity(d) : d \in DealIds} \cup {MsEntity(m) : m \in MsIds}

\* Neither context holds a row.
WhIdle == <<"idle", 0, NULL>>
BtIdle == <<"idle", 0, NULL, NULL>>

ExistingDeals == {d \in DealIds : deals[d].deal_type # NULL}
ExistingMilestones == {m \in MsIds : milestones[m].deal_id # 0}
MilestonesOf(d) == {m \in MsIds : milestones[m].deal_id = d}

RECURSIVE SumAmounts(_)
SumAmounts(s) == IF s = <<>> THEN 0 ELSE Head(s) + SumAmounts(Tail(s))

RECURSIVE SumOver(_)
SumOver(S) == IF S = {} THEN 0
              ELSE LET m == CHOOSE x \in S : TRUE
                   IN milestones[m].amount + SumOver(S \ {m})

\* ---------------------------------------------------------- job queue
JobNames == JobTypes \X DealIds

\* The job name a handler builds for a deal: expire_offer_<id>,
\* check_unshipped_<id>, auto_release_<id>; one name per (job_type, deal).
JobId(job_type, d) == <<job_type, d>>

\* scheduler.schedule_job: run_once adds a job under the name; a job already
\* queued under that name stays.
schedule_job(q, job_id) == [q EXCEPT ![job_id] = @ + 1]

\* (a removal that removes nothing)
KeepJobs(q, job_id) == q

\* scheduler.remove_job: removes every queued job with that name.
remove_job(q, job_id) == IF job_id = NoJob THEN q ELSE [q EXCEPT ![job_id] = 0]

LiveJobs(q, d) == q[JobId("expire_offer", d)] + q[JobId("check_unshipped_trades", d)]
                  + q[JobId("check_unconfirmed_deliveries", d)]

\* ------------------------------------------------------------ gateway
\* int(amount * 100): the whole cents of an amount, the fraction dropped.
Cents(amount) == amount \div 10

\* os.getenv("PLATFORM_FEE_PERCENT"): the fee percentage of this deployment.
PLATFORM_FEE_PERCENT == 3

\* int((total_amount * (platform_fee_percent / 100)) * 100): the percentage
\* of the amount in cents, the fraction of a cent dropped.
ApplicationFeeCents(amount, percent) == (amount * percent) \div 1000

\* The log of one deal or milestone before any call.
NoCalls == [transfers |-> 0, refunds |-> 0, transferred |-> 0, refunded |-> 0,
            payee |-> NULL]

\* Transfer.create(amount=cents, destination=account of payee) accepted.
LogTransfer(c, cents, payee) ==
    [c EXCEPT !.transfers = @ + 1, !.transferred = @ + cents, !.payee = payee]

\* Refund.create accepted: amount_cents when it is given and not 0, else the
\* whole payment (charged cents).
LogRefund(c, amount_cents, charged) ==
    [c EXCEPT !.refunds = @ + 1,
              !.refunded = @ + (IF amount_cents # 0 THEN amount_cents ELSE charged)]

GwMsCalls(g, m) == g.ms[m].transfers + g.ms[m].refunds

RECURSIVE MsCallsUpTo(_, _, _, _)
MsCallsUpTo(g, rows, d, n) ==
    IF n = 0 THEN 0
    ELSE (IF rows[n].deal_id = d THEN GwMsCalls(g, n) ELSE 0) + MsCallsUpTo(g, rows, d, n - 1)

\* Calls logged for deal d and its milestones.
GwCalls(g, d) == g.deal[d].transfers + g.deal[d].refunds
                 + MsCallsUpTo(g, milestones, d, MaxMilestones)

\* StripeHelper.transfer: Transfer.create needs a destination account.
TransferOk(destination) == destination # NULL

\* StripeHelper.refund_payment: Refund.create needs a payment intent.
RefundOk(payment_intent_id) == payment_intent_id # NULL

\* What a gateway call can do for reasons the program does not control
\* (network, balance, an already refunded charge): return, or raise.
GatewayOutcomes == BOOLEAN

\* -------------------------------------------------------------- queries
\* session.query(Deal).filter(creator_id == u or counterparty_id == u,
\*                            status == "completed").count()
CompletedDealsCount(ds, u) ==
    Cardinality({d \in DealIds : /\ ds[d].deal_type # NULL
                                 /\ (ds[d].creator_id = u \/ ds[d].counterparty_id = u)
                                 /\ ds[d].status = "completed"})

\* The award itself: one credit to the referrer, the referral marked claimed.
Award(st, user_id) ==
    LET referrer == st.referrals[user_id].referrer_id
    IN [users |-> [st.users EXCEPT ![referrer].free_trades_remaining = @ + 1],
        referrals |-> [st.referrals EXCEPT ![user_id].reward_claimed = TRUE]]

\* (the check without its reward_claimed test)
CheckReferralIgnoringClaim(ds, st, user_id) ==
    IF /\ st.referrals[user_id].referrer_id # NULL
       /\ CompletedDealsCount(ds, user_id) >= 1
    THEN Award(st, user_id)
    ELSE st

\* handlers._check_and_award_referral on the committed deals ds; st holds the
\* user and referral rows.  Nothing is awaited between its read and its
\* commit, so on the bot's event loop it is one step.
check_and_award_referral(ds, st, user_id) ==
    IF /\ st.referrals[user_id].referrer_id # NULL
       /\ ~st.referrals[user_id].reward_claimed
       /\ CompletedDealsCount(ds, user_id) >= 1
    THEN Award(st, user_id)
    ELSE st

\* The two calls that end confirm_delivery, creator first.  DB.session() is a
\* scoped (per-thread) session, and the first call closes it: when that call
\* committed an award, the deal row the handler still holds is expired and
\* detached, so whether the second call is reached is left open (second).
ReferralChecks(ds, st, creator, counterparty, second) ==
    LET s1 == check_and_award_referral(ds, st, creator)
    IN IF s1 # st /\ ~second THEN s1
       ELSE check_and_award_referral(ds, s1, counterparty)

BotFree == bt = BtIdle

\* ------------------------------------------------------ account, referral
\* handlers.connect_stripe
ConnectStripe(u) ==
    /\ BotFree
    /\ users[u].stripe_account_id = NULL
    /\ users' = [users EXCEPT ![u].stripe_account_id = "acct"]
    /\ UNCHANGED <<deals, milestones, referrals, jobs, gw, conv, evt, wh, bt, disputes, app_fee, reviews>>

\* handlers.start with a ref_<referrer> argument
Start(new_user, referrer_id) ==
    /\ BotFree
    /\ referrer_id # new_user
    /\ referrals[new_user].referrer_id = NULL
    /\ referrals' = [referrals EXCEPT ![new_user] =
                        [referrer_id |-> referrer_id, reward_claimed |-> FALSE]]
    /\ UNCHANGED <<deals, milestones, users, jobs, gw, conv, evt, wh, bt, disputes, app_fee, reviews>>

\* ------------------------------------------------------------ creation
NextDealId == IF ExistingDeals = DealIds THEN 0
              ELSE CHOOSE d \in DealIds \ ExistingDeals :
                       \A e \in DealIds \ ExistingDeals : d <= e

\* handlers.trade_ask_amount
TradeAskAmount(d, seller, buyer, amount) ==
    /\ BotFree
    /\ d = NextDealId
    /\ amount > 0
    /\ deals' = [deals EXCEPT ![d] =
                    [deal_type |-> "trade", creator_id |-> seller,
                     counterparty_id |-> buyer, total_amount |-> amount,
                     status |-> "pending", trade_status |-> NULL,
                     payment_intent_id |-> NULL, auto_job_id |-> NoJob]]
    /\ UNCHANGED <<milestones, users, referrals, jobs, gw, conv, evt, wh, bt, disputes, app_fee, reviews>>

\* ------------------------------------------- button_handler: trade actions
\* Every trade action loads session.get(Deal, entity_id): a row of either
\* deal_type.  A sender who fails the identity check gets an alert only.

\* action == "send_offer"
SendOffer(d, u) ==
    /\ BotFree
    /\ d \in ExistingDeals
    /\ IF u # deals[d].creator_id
       THEN UNCHANGED vars
       ELSE LET job_id == JobId("expire_offer", d)
            IN /\ deals' = [deals EXCEPT ![d].auto_job_id = job_id]
               /\ jobs' = schedule_job(jobs, job_id)
               /\ LiveJobs(jobs', d) <= MaxJobs
               /\ UNCHANGED <<milestones, users, referrals, gw, conv, evt, wh, bt, disputes, app_fee, reviews>>

\* action == "pay_trade": fee/credit, checkout session, ship-by job
PayTrade(d, u) ==
    /\ BotFree
    /\ d \in ExistingDeals
    /\ IF u # deals[d].counterparty_id
       THEN UNCHANGED vars
       ELSE LET buyer == deals[d].counterparty_id
                job_id == JobId("check_unshipped_trades", d)
                completed_deals_count == CompletedDealsCount(deals, buyer)
                credit == /\ completed_deals_count # 0
                          /\ users[buyer].free_trades_remaining > 0
                charged == /\ completed_deals_count # 0 /\ ~credit
                           /\ PLATFORM_FEE_PERCENT > 0
            IN /\ users' = IF credit
                           THEN [users EXCEPT ![buyer].free_trades_remaining = @ - 1]
                           ELSE users
               /\ app_fee' = [app_fee EXCEPT ![d] =
                                 IF charged
                                 THEN ApplicationFeeCents(deals[d].total_amount,
                                                          PLATFORM_FEE_PERCENT)
                                 ELSE 0]
               /\ evt' = [evt EXCEPT ![DealEntity(d)] = "open"]
               /\ deals' = [deals EXCEPT ![d].auto_job_id = job_id]
               /\ jobs' = schedule_job(jobs, job_id)
               /\ LiveJobs(jobs', d) <= MaxJobs
               /\ UNCHANGED <<milestones, referrals, gw, conv, wh, bt, disputes, reviews>>

\* (mark_shipped without the sender check)
MarkShippedAnySender(d, u) ==
    /\ BotFree
    /\ d \in ExistingDeals
    /\ LET job_id == JobId("check_unconfirmed_deliveries", d)
       IN /\ deals' = [deals EXCEPT ![d].trade_status = "shipped",
                                    ![d].auto_job_id = job_id]
          /\ jobs' = schedule_job(remove_job(jobs, deals[d].auto_job_id), job_id)
          /\ LiveJobs(jobs', d) <= MaxJobs
          /\ UNCHANGED <<milestones, users, referrals, gw, conv, evt, wh, bt, disputes, app_fee, reviews>>

\* action == "mark_shipped"
MarkShipped(d, u) ==
    /\ BotFree
    /\ d \in ExistingDeals
    /\ IF u # deals[d].creator_id
       THEN UNCHANGED vars
       ELSE LET job_id == JobId("check_unconfirmed_deliveries", d)
            IN /\ deals' = [deals EXCEPT ![d].trade_status = "shipped",
                                         ![d].auto_job_id = job_id]
               /\ jobs' = schedule_job(remove_job(jobs, deals[d].auto_job_id), job_id)
               /\ LiveJobs(jobs', d) <= MaxJobs
               /\ UNCHANGED <<milestones, users, referrals, gw, conv, evt, wh, bt, disputes, app_fee, reviews>>

\* (confirm_delivery committing completed before it calls the gateway)
ConfirmDeliveryCommitFirst(d, u) ==
    /\ BotFree
    /\ d \in ExistingDeals
    /\ u = deals[d].counterparty_id
    /\ jobs' = remove_job(jobs, deals[d].auto_job_id)
    /\ deals' = [deals EXCEPT ![d].trade_status = "completed",
                              ![d].status = "completed"]
    /\ \E ok \in GatewayOutcomes :
          gw' = IF ok /\ TransferOk(users[deals[d].creator_id].stripe_account_id)
                THEN [gw EXCEPT !.deal[d] =
                         LogTransfer(@, Cents(deals[d].total_amount), deals[d].creator_id)]
                ELSE gw
    /\ GwCalls(gw', d) <= MaxCalls
    /\ UNCHANGED <<milestones, users, referrals, conv, evt, wh, bt, disputes, app_fee, reviews>>

\* action == "confirm_delivery": the job is removed, then the transfer is
\* made; a transfer that raises ends the handler before any assignment.
ConfirmDelivery(d, u) ==
    /\ BotFree
    /\ d \in ExistingDeals
    /\ IF u # deals[d].counterparty_id
       THEN UNCHANGED vars
       ELSE /\ jobs' = remove_job(jobs, deals[d].auto_job_id)
            /\ \E ok \in GatewayOutcomes :
               IF ~(ok /\ TransferOk(users[deals[d].creator_id].stripe_account_id))
               THEN UNCHANGED <<deals, milestones, users, referrals, gw, conv, evt, wh, bt, disputes, app_fee, reviews>>
               ELSE /\ GwCalls(gw, d) < MaxCalls
                    /\ gw' = [gw EXCEPT !.deal[d] =
                                 LogTransfer(@, Cents(deals[d].total_amount),
                                             deals[d].creator_id)]
                    /\ deals' = [deals EXCEPT ![d].trade_status = "completed",
                                              ![d].status = "completed"]
                    /\ \E second \in BOOLEAN :
                         LET st == ReferralChecks(deals',
                                       [users |-> users, referrals |-> referrals],
                                       deals[d].creator_id, deals[d].counterparty_id,
                                       second)
                         IN /\ users' = st.users
                            /\ referrals' = st.referrals
                    /\ UNCHANGED <<milestones, conv, evt, wh, bt, disputes, app_fee, reviews>>

\* action == "decline_trade"
DeclineTrade(d, u) ==
    /\ BotFree
    /\ d \in ExistingDeals
    /\ IF u # deals[d].counterparty_id
       THEN UNCHANGED vars
       ELSE /\ jobs' = remove_job(jobs, deals[d].auto_job_id)
            /\ deals' = [deals EXCEPT ![d].status = "cancelled"]
            /\ UNCHANGED <<milestones, users, referrals, gw, conv, evt, wh, bt, disputes, app_fee, reviews>>

\* action == "cancel_deal"
CancelDeal(d, u) ==
    /\ BotFree
    /\ d \in ExistingDeals
    /\ IF u # deals[d].creator_id
       THEN UNCHANGED vars
       ELSE /\ jobs' = remove_job(jobs, deals[d].auto_job_id)
            /\ deals' = [deals EXCEPT ![d].status = "cancelled"]
            /\ UNCHANGED <<milestones, users, referrals, gw, conv, evt, wh, bt, disputes, app_fee, reviews>>

\* ------------------------------------------------------------- dispute
\* handlers.dispute_process_proof: the end of the dispute dialogue any user
\* can open with "dispute_deal:<id>".
DisputeProcessProof(d, u) ==
    /\ BotFree
    /\ d \in ExistingDeals
    /\ disputes[d] < MaxDisputes
    /\ jobs' = remove_job(jobs, deals[d].auto_job_id)
    /\ deals' = [deals EXCEPT ![d].status = "disputed"]
    /\ disputes' = [disputes EXCEPT ![d] = @ + 1]
    /\ UNCHANGED <<milestones, users, referrals, gw, conv, evt, wh, bt, app_fee, reviews>>

\* --------------------------------------------------- milestone dialogue
\* handlers.milestone_ask_title
MilestoneAskTitle ==
    /\ BotFree
    /\ conv.state = "idle"
    /\ conv' = [state |-> "loop", milestones |-> <<>>]
    /\ UNCHANGED <<deals, milestones, users, referrals, jobs, gw, evt, wh, bt, disputes, app_fee, reviews>>

\* handlers.milestone_ask_loop
MilestoneAskLoop(amount) ==
    /\ BotFree
    /\ conv.state = "loop"
    /\ Len(conv.milestones) < MaxMilestones
    /\ conv' = [conv EXCEPT !.milestones = Append(@, amount)]
    /\ UNCHANGED <<deals, milestones, users, referrals, jobs, gw, evt, wh, bt, disputes, app_fee, reviews>>

\* The rows milestone_finish adds for the list ms under deal d: ids count
\* on from the rows that exist.
NewMilestones(rows, ms, d) ==
    LET base == Cardinality({m \in MsIds : rows[m].deal_id # 0})
    IN [m \in MsIds |->
           IF m > base /\ m <= base + Len(ms)
           THEN [deal_id |-> d, amount |-> ms[m - base],
                 payment_intent_id |-> NULL, is_released |-> FALSE]
           ELSE rows[m]]

\* (a total that leaves out the last milestone)
TotalWithoutLast(ms) == SumAmounts(SubSeq(ms, 1, Len(ms) - 1))

\* total_amount=sum(m["amount"] for m in user_data["milestones"])
TotalOf(ms) == SumAmounts(ms)

\* handlers.milestone_finish (/done).  The dashboard built after the commit,
\* keyboards.milestone_project_keyboard, reads deal.milestones, which
\* models.Deal does not declare (Milestone.deal has no back reference): the
\* call raises, so user_data is not cleared and the dialogue stays in its
\* loop state with the list it had.
MilestoneFinish(d, client, contractor) ==
    /\ BotFree
    /\ conv.state = "loop"
    /\ IF conv.milestones = <<>>
       THEN UNCHANGED vars
       ELSE /\ d = NextDealId
            /\ Cardinality(ExistingMilestones) + Len(conv.milestones) <= MaxMilestones
            /\ deals' = [deals EXCEPT ![d] =
                            [deal_type |-> "milestone", creator_id |-> client,
                             counterparty_id |-> contractor,
                             total_amount |-> TotalOf(conv.milestones),
                             status |-> "pending", trade_status |-> NULL,
                             payment_intent_id |-> NULL, auto_job_id |-> NoJob]]
            /\ milestones' = NewMilestones(milestones, conv.milestones, d)
            /\ UNCHANGED <<users, referrals, jobs, gw, conv, evt, wh, bt, disputes, app_fee, reviews>>

\* --------------------------------------- button_handler: milestone actions
\* action == "deposit_milestone"
DepositMilestone(m, u) ==
    /\ BotFree
    /\ m \in ExistingMilestones
    /\ LET d == milestones[m].deal_id
       IN IF deals[d].status = "disputed" \/ u # deals[d].creator_id
          THEN UNCHANGED vars
          ELSE /\ evt' = [evt EXCEPT ![MsEntity(m)] = "open"]
               /\ UNCHANGED <<deals, milestones, users, referrals, jobs, gw, conv, wh, bt, disputes, app_fee, reviews>>

AllReleased(rows, d) == \A m \in MsIds : rows[m].deal_id = d => rows[m].is_released

\* The status release_milestone commits for deal d once row m is released.
ReleaseStatus(rows, d, status) == IF AllReleased(rows, d) THEN "completed" ELSE status

\* action == "release_milestone".  After the commit the dashboard is rebuilt
\* (see MilestoneFinish), so the referral checks that follow it are not
\* reached.
ReleaseMilestone(m, u) ==
    /\ BotFree
    /\ m \in ExistingMilestones
    /\ LET d == milestones[m].deal_id
           contractor == deals[d].counterparty_id
       IN IF \/ deals[d].status = "disputed"
             \/ u # deals[d].creator_id
             \/ users[contractor].stripe_account_id = NULL
          THEN UNCHANGED vars
          ELSE \E ok \in GatewayOutcomes :
               IF ~(ok /\ TransferOk(users[contractor].stripe_account_id))
               THEN UNCHANGED vars
               ELSE /\ GwCalls(gw, d) < MaxCalls
                    /\ gw' = [gw EXCEPT !.ms[m] =
                                 LogTransfer(@, Cents(milestones[m].amount), contractor)]
                    /\ milestones' = [milestones EXCEPT ![m].is_released = TRUE]
                    /\ deals' = [deals EXCEPT ![d].status =
                                    ReleaseStatus(milestones', d, deals[d].status)]
                    /\ UNCHANGED <<users, referrals, jobs, conv, evt, wh, bt, disputes, app_fee, reviews>>

\* ------------------------------------------------------- rating_handler
\* The stars of the rating keyboard that are pressed here.
Ratings == {1, 5}

\* (a lookup that finds nothing)
NoExistingReview(rows, deal_id, reviewer_id) == FALSE

\* session.query(Review).filter_by(deal_id=..., reviewer_id=...).first()
existing_review(rows, deal_id, reviewer_id) ==
    \E i \in 1..Len(rows) : rows[i].deal_id = deal_id /\ rows[i].reviewer_id = reviewer_id

\* handlers.rating_handler on "rate:<deal>:<reviewee>:<stars>" pressed by
\* reviewer: the lookup, then the insert and commit, with no await between.
RatingHandler(reviewer, deal_id, reviewee_id, rating) ==
    /\ BotFree
    /\ IF existing_review(reviews, deal_id, reviewer)
       THEN UNCHANGED vars
       ELSE /\ Len(reviews) < MaxReviews
            /\ reviews' = Append(reviews, [deal_id |-> deal_id, reviewer_id |-> reviewer,
                                           reviewee_id |-> reviewee_id, rating |-> rating])
            /\ UNCHANGED <<deals, milestones, users, referrals, jobs, gw, conv, evt, wh, bt, disputes, app_fee>>

\* ------------------------------------------------------- admin commands
\* handlers.admin_split_funds: the transfer, then the refund, then the
\* status; a call that raises ends the try block (what was already sent to
\* the gateway stays sent) and nothing is committed.
AdminSplitFunds(d, seller_amount) ==
    /\ BotFree
    /\ IF \/ d \notin ExistingDeals
          \/ deals[d].payment_intent_id = NULL
          \/ seller_amount < 0
          \/ seller_amount > deals[d].total_amount
       THEN UNCHANGED vars
       ELSE \E t_ok, r_ok \in GatewayOutcomes :
            LET buyer_refund_amount == deals[d].total_amount - seller_amount
                seller == deals[d].creator_id
                t_done == /\ seller_amount > 0 /\ t_ok
                          /\ TransferOk(users[seller].stripe_account_id)
                t_raised == seller_amount > 0 /\ ~t_done
                r_done == ~t_raised /\ buyer_refund_amount > 0 /\ r_ok
                r_raised == ~t_raised /\ buyer_refund_amount > 0 /\ ~r_ok
                log1 == IF t_done
                        THEN LogTransfer(gw.deal[d], Cents(seller_amount), seller)
                        ELSE gw.deal[d]
                log2 == IF r_done
                        THEN LogRefund(log1, Cents(buyer_refund_amount),
                                       Cents(deals[d].total_amount))
                        ELSE log1
            IN /\ gw' = [gw EXCEPT !.deal[d] = log2]
               /\ GwCalls(gw', d) <= MaxCalls
               /\ deals' = IF t_raised \/ r_raised THEN deals
                           ELSE [deals EXCEPT ![d].status = "completed"]
               /\ UNCHANGED <<milestones, users, referrals, jobs, conv, evt, wh, bt, disputes, app_fee, reviews>>

\* handlers.admin_refund: entity_id is looked up as a milestone id first, then
\* as a deal id; refund_payment without an amount refunds the whole payment.
AdminRefund(entity_id) ==
    /\ BotFree
    /\ \E ok \in GatewayOutcomes :
       IF entity_id \in ExistingMilestones
          /\ milestones[entity_id].payment_intent_id # NULL
       THEN LET d == milestones[entity_id].deal_id
            IN IF ~ok THEN UNCHANGED vars
               ELSE /\ GwCalls(gw, d) < MaxCalls
                    /\ gw' = [gw EXCEPT !.ms[entity_id] =
                                 LogRefund(@, 0, Cents(milestones[entity_id].amount))]
                    /\ milestones' = [milestones EXCEPT ![entity_id].is_released = TRUE]
                    /\ deals' = [deals EXCEPT ![d].status = "cancelled"]
                    /\ UNCHANGED <<users, referrals, jobs, conv, evt, wh, bt, disputes, app_fee, reviews>>
       ELSE IF entity_id \in ExistingDeals /\ deals[entity_id].payment_intent_id # NULL
       THEN IF ~ok THEN UNCHANGED vars
            ELSE /\ GwCalls(gw, entity_id) < MaxCalls
                 /\ gw' = [gw EXCEPT !.deal[entity_id] =
                              LogRefund(@, 0, Cents(deals[entity_id].total_amount))]
                 /\ deals' = [deals EXCEPT ![entity_id].status = "cancelled",
                                           ![entity_id].trade_status = "refunded"]
                 /\ UNCHANGED <<milestones, users, referrals, jobs, conv, evt, wh, bt, disputes, app_fee, reviews>>
       ELSE UNCHANGED vars

\* (admin_resolve without the status check)
AdminResolveAnyStatus(d) ==
    /\ BotFree
    /\ IF d \notin ExistingDeals
       THEN UNCHANGED vars
       ELSE /\ deals' = [deals EXCEPT ![d].status = "pending"]
            /\ UNCHANGED <<milestones, users, referrals, jobs, gw, conv, evt, wh, bt, disputes, app_fee, reviews>>

\* handlers.admin_resolve
AdminResolve(d) ==
    /\ BotFree
    /\ IF d \notin ExistingDeals \/ deals[d].status # "disputed"
       THEN UNCHANGED vars
       ELSE /\ deals' = [deals EXCEPT ![d].status = "pending"]
            /\ UNCHANGED <<milestones, users, referrals, jobs, gw, conv, evt, wh, bt, disputes, app_fee, reviews>>

\* ------------------------------------------------------ stored columns
\* The unit of work writes a column only when the handler gave it a value
\* other than the one it loaded; a column left as loaded keeps whatever the
\* store holds at commit time.
Flush(loaded, assigned, stored) == IF assigned = loaded THEN stored ELSE assigned

\* --------------------------------------------- webhooks/server.py: webhook
\* The guard the webhook evaluates on the row it loaded.
WebhookGuard(e) ==
    IF e[1] = "milestone"
    THEN e[2] \in ExistingMilestones /\ milestones[e[2]].payment_intent_id = NULL
    ELSE e[2] \in ExistingDeals /\ deals[e[2]].status = "pending"

\* checkout.session.completed for entity e reaches the server thread: the
\* row is loaded and the guard evaluated.
WebhookRead(e) ==
    /\ wh = WhIdle
    /\ evt[e] \in {"open", "paid"}
    /\ evt' = [evt EXCEPT ![e] = "paid"]
    /\ wh' = IF WebhookGuard(e)
             THEN <<e[1], e[2], IF e[1] = "deal" THEN deals[e[2]].trade_status ELSE NULL>>
             ELSE WhIdle
    /\ UNCHANGED <<deals, milestones, users, referrals, jobs, gw, conv, bt, disputes, app_fee, reviews>>

\* ... the assignments and session.commit()
WebhookCommit ==
    /\ wh # WhIdle
    /\ IF wh[1] = "milestone"
       THEN /\ milestones' = [milestones EXCEPT ![wh[2]].payment_intent_id = "pi"]
            /\ UNCHANGED deals
       ELSE /\ deals' = [deals EXCEPT
                   ![wh[2]].status = "funded",
                   ![wh[2]].trade_status = Flush(wh[3], "funded", @),
                   ![wh[2]].payment_intent_id = "pi"]
            /\ UNCHANGED milestones
    /\ wh' = WhIdle
    /\ UNCHANGED <<users, referrals, jobs, gw, conv, evt, bt, disputes, app_fee, reviews>>

Init ==
    /\ deals = [d \in DealIds |-> NoDeal]
    /\ milestones = [m \in MsIds |-> NoMilestone]
    /\ users = [u \in Users |-> NoUser]
    /\ referrals = [u \in Users |-> NoReferral]
    /\ jobs = [j \in JobNames |-> 0]
    /\ gw = [deal |-> [d \in DealIds |-> NoCalls], ms |-> [m \in MsIds |-> NoCalls]]
    /\ conv = [state |-> "idle", milestones |-> <<>>]
    /\ evt = [e \in Entities |-> "none"]
    /\ wh = WhIdle
    /\ bt = BtIdle
    /\ disputes = [d \in DealIds |-> 0]
    /\ app_fee = [d \in DealIds |-> 0]
    /\ reviews = <<>>

\* ------------------------------------------ scheduler.run_scheduled_job
\* (a callback that takes its branch whatever the row holds)
JobGuardAny(job_type, row) == TRUE

\* The guard of the branch a job of this type takes on the row it loaded.
JobGuard(job_type, row) ==
    \/ job_type = "expire_offer" /\ row.status = "pending"
    \/ job_type = "check_unshipped_trades" /\ row.trade_status = "funded"
    \/ job_type = "check_unconfirmed_deliveries" /\ row.trade_status = "shipped"

\* A queued job comes due: run_once takes it off the queue, the callback
\* loads the deal and picks its branch.
JobRead(j) ==
    /\ BotFree
    /\ jobs[j] > 0
    /\ jobs' = [jobs EXCEPT ![j] = @ - 1]
    /\ LET d == j[2]
       IN /\ j[1] # "expire_offer" /\ JobGuard(j[1], deals[d]) => GwCalls(gw, d) < MaxCalls
          /\ bt' = IF d \in ExistingDeals /\ JobGuard(j[1], deals[d])
                   THEN <<j[1], d, deals[d].status, deals[d].trade_status>>
                   ELSE BtIdle
    /\ UNCHANGED <<deals, milestones, users, referrals, gw, conv, evt, wh, disputes, app_fee, reviews>>

\* ... the gateway call of the branch, its assignments and session.commit();
\* a gateway call that raises is logged and nothing is committed.
JobCommit ==
    /\ bt # BtIdle
    /\ bt' = BtIdle
    /\ \E ok \in GatewayOutcomes :
       LET d == bt[2]
       IN \/ /\ bt[1] = "expire_offer"
             /\ ok
             /\ deals' = [deals EXCEPT ![d].status = Flush(bt[3], "cancelled", @)]
             /\ UNCHANGED gw
          \/ /\ bt[1] = "check_unshipped_trades"
             /\ IF ok /\ RefundOk(deals[d].payment_intent_id)
                THEN /\ gw' = [gw EXCEPT !.deal[d] =
                                 LogRefund(@, 0, Cents(deals[d].total_amount))]
                     /\ deals' = [deals EXCEPT
                            ![d].status = Flush(bt[3], "cancelled", @),
                            ![d].trade_status = Flush(bt[4], "refunded", @)]
                ELSE UNCHANGED <<deals, gw>>
          \/ /\ bt[1] = "check_unconfirmed_deliveries"
             /\ IF ok /\ TransferOk(users[deals[d].creator_id].stripe_account_id)
                THEN /\ gw' = [gw EXCEPT !.deal[d] =
                                 LogTransfer(@, Cents(deals[d].total_amount),
                                             deals[d].creator_id)]
                     /\ deals' = [deals EXCEPT
                            ![d].status = Flush(bt[3], "completed", @),
                            ![d].trade_status = Flush(bt[4], "completed", @)]
                ELSE UNCHANGED <<deals, gw>>
    /\ UNCHANGED <<milestones, users, referrals, jobs, conv, evt, wh, disputes, app_fee, reviews>>

\* ------------------------------------------------------- specification
\* The parties of every deal: u1 sells (or is the client), u2 buys (or is the
\* contractor); each is the wrong sender for the other's buttons.  u3 refers.
Parties == {"u1", "u2"}

TradeDeals == {d \in DealIds : deals[d].deal_type = "trade"}
Projects == {d \in DealIds : deals[d].deal_type = "milestone"}

\* The trade engine on one trade: creation, the six trade buttons, the
\* dispute dialogue, the admin commands, the webhook, the scheduled jobs and
\* the referral of the buyer.  Only the seller's payout account is read.
Next ==
    \/ ConnectStripe("u1")
    \/ Start("u2", "u3")
    \/ \E a \in TradeAmounts : TradeAskAmount(1, "u1", "u2", a)
    \/ \E d \in TradeDeals, u \in Parties : SendOffer(d, u)
    \/ \E d \in TradeDeals, u \in Parties : PayTrade(d, u)
    \/ \E d \in TradeDeals, u \in Parties : MarkShipped(d, u)
    \/ \E d \in TradeDeals, u \in Parties : ConfirmDelivery(d, u)
    \/ \E d \in TradeDeals, u \in Parties : DeclineTrade(d, u)
    \/ \E d \in TradeDeals, u \in Parties : CancelDeal(d, u)
    \/ \E d \in TradeDeals, u \in Parties : DisputeProcessProof(d, u)
    \/ \E d \in TradeDeals, a \in SplitAmounts : AdminSplitFunds(d, a)
    \/ \E d \in TradeDeals : AdminRefund(d)
    \/ \E d \in TradeDeals : AdminResolve(d)
    \/ \E d \in TradeDeals : WebhookRead(DealEntity(d))
    \/ WebhookCommit
    \/ \E j \in JobNames : JobRead(j)
    \/ JobCommit

Spec == Init /\ [][Next]_vars

\* The trade engine without the admin commands: what the two parties, the
\* payment provider's events and the deadlines alone can do.  A deal is
\* disputed at most once.
NextParties ==
    \/ ConnectStripe("u1")
    \/ \E u \in Parties : Start(u, "u3")
    \/ \E a \in TradeAmounts : TradeAskAmount(1, "u1", "u2", a)
    \/ \E d \in TradeDeals, u \in Parties : SendOffer(d, u)
    \/ \E d \in TradeDeals, u \in Parties : PayTrade(d, u)
    \/ \E d \in TradeDeals, u \in Parties : MarkShipped(d, u)
    \/ \E d \in TradeDeals, u \in Parties : ConfirmDelivery(d, u)
    \/ \E d \in TradeDeals, u \in Parties : DeclineTrade(d, u)
    \/ \E d \in TradeDeals, u \in Parties : CancelDeal(d, u)
    \/ \E d \in TradeDeals, u \in Parties : disputes[d] = 0 /\ DisputeProcessProof(d, u)
    \/ \E d \in TradeDeals : WebhookRead(DealEntity(d))
    \/ WebhookCommit
    \/ \E j \in JobNames : JobRead(j)
    \/ JobCommit

SpecParties == Init /\ [][NextParties]_vars

\* A milestone project from its creation dialogue on: deposit, payment
\* confirmation, release, one dispute and the admin commands.  Only the
\* contractor's payout account is read, and no checkout is opened for a
\* milestone once the payment of one was confirmed (SpecDeposit has those).
NextProject ==
    \/ ConnectStripe("u2")
    \/ MilestoneAskTitle
    \/ \E a \in MilestoneAmounts : MilestoneAskLoop(a)
    \/ MilestoneFinish(1, "u1", "u2")
    \/ \E m \in MsIds, u \in Parties :
          evt[MsEntity(m)] # "paid" /\ DepositMilestone(m, u)
    \/ \E m \in MsIds, u \in Parties : ReleaseMilestone(m, u)
    \/ \E d \in ExistingDeals, u \in Parties : disputes[d] = 0 /\ DisputeProcessProof(d, u)
    \/ \E id \in DealIds \cup MsIds : AdminRefund(id)
    \/ \E d \in ExistingDeals : AdminResolve(d)
    \/ \E m \in MsIds : WebhookRead(MsEntity(m))
    \/ WebhookCommit

SpecProject == Init /\ [][NextProject]_vars

\* main.py run again after the process stopped: build_app makes a new
\* Application with an empty job queue and empty user_data, the threads start
\* over; the database file is what it was.  Nothing reads Deal.auto_job_id
\* back into the queue.
Restart ==
    /\ jobs' = [j \in JobNames |-> 0]
    /\ conv' = [state |-> "idle", milestones |-> <<>>]
    /\ wh' = WhIdle
    /\ bt' = BtIdle
    /\ UNCHANGED <<deals, milestones, users, referrals, gw, evt, disputes, app_fee, reviews>>

\* The parties' trade engine in a process that can stop and start again.
NextRestart ==
    \/ NextParties
    \/ Restart

SpecRestart == Init /\ [][NextRestart]_vars

\* The split amounts the administrator tries in SpecAll: one within the
\* total, one above it.
SplitAmountsAll == {700, 1500}

\* The account a deal pays out to: the seller's for a trade, the contractor's
\* for a project.
Payee(d) == IF deals[d].deal_type = "trade" THEN deals[d].creator_id
            ELSE deals[d].counterparty_id

\* One deal of either kind under every trigger: either party presses any
\* button, any user files a dispute, the admin commands, payment events and
\* jobs.  A user
\* is in one creation dialogue at a time and names no further milestone after
\* /done; only the payee connects an account; one milestone amount and two
\* split amounts (one in range, one above the total) are used; referrals are
\* left to Spec, a further checkout once a payment was confirmed to
\* SpecParties (trade) and SpecDeposit (milestone).
NextAll ==
    \/ \E d \in ExistingDeals : ConnectStripe(Payee(d))
    \/ \E a \in TradeAmounts : conv.state = "idle" /\ TradeAskAmount(1, "u1", "u2", a)
    \/ ExistingDeals = {} /\ MilestoneAskTitle
    \/ \E a \in {60} : ExistingDeals = {} /\ MilestoneAskLoop(a)
    \/ MilestoneFinish(1, "u1", "u2")
    \/ \E d \in TradeDeals, u \in Users : SendOffer(d, u)
    \/ \E d \in TradeDeals, u \in Users :
          evt[DealEntity(d)] # "paid" /\ PayTrade(d, u)
    \/ \E d \in TradeDeals, u \in Users : MarkShipped(d, u)
    \/ \E d \in TradeDeals, u \in Users : ConfirmDelivery(d, u)
    \/ \E d \in TradeDeals, u \in Users : DeclineTrade(d, u)
    \/ \E d \in TradeDeals, u \in Users : CancelDeal(d, u)
    \/ \E m \in MsIds, u \in Users :
          evt[MsEntity(m)] # "paid" /\ DepositMilestone(m, u)
    \/ \E m \in MsIds, u \in Users : ReleaseMilestone(m, u)
    \/ \E d \in ExistingDeals, u \in Parties : disputes[d] = 0 /\ DisputeProcessProof(d, u)
    \/ \E d \in DealIds, a \in SplitAmountsAll : AdminSplitFunds(d, a)
    \/ \E id \in DealIds \cup MsIds : AdminRefund(id)
    \/ \E d \in DealIds : AdminResolve(d)
    \/ \E e \in Entities : WebhookRead(e)
    \/ WebhookCommit
    \/ \E j \in JobNames : JobRead(j)
    \/ JobCommit

SpecAll == Init /\ [][NextAll]_vars

\* Amounts of the trades whose fee is computed: one in whole cents, one with
\* a fraction of a cent (0.339).
FeeAmounts == {339, 1000}

\* One trade between a seller the buyer referred and that buyer, from
\* creation to completion, with the buyer pressing pay at any time: before
\* a first completed deal, with the referral credit, and without one.
NextFee ==
    \/ ConnectStripe("u1")
    \/ Start("u1", "u2")
    \/ \E a \in FeeAmounts : TradeAskAmount(1, "u1", "u2", a)
    \/ \E d \in TradeDeals, u \in Parties : PayTrade(d, u)
    \/ \E d \in TradeDeals : MarkShipped(d, "u1")
    \/ \E d \in TradeDeals : ConfirmDelivery(d, "u2")
    \/ \E d \in TradeDeals : WebhookRead(DealEntity(d))
    \/ WebhookCommit
    \/ \E j \in JobNames : JobRead(j)
    \/ JobCommit

SpecFee == Init /\ [][NextFee]_vars

\* A milestone project that receives the trade buttons: callback data
\* "<action>:<id>" with the project's deal id, pressed by its client or its
\* contractor, with the payment events and the jobs that follow.
NextCross ==
    \/ \E u \in Parties : ConnectStripe(u)
    \/ MilestoneAskTitle
    \/ \E a \in MilestoneAmounts : ExistingDeals = {} /\ MilestoneAskLoop(a)
    \/ MilestoneFinish(1, "u1", "u2")
    \/ \E d \in Projects, u \in Parties : SendOffer(d, u)
    \/ \E d \in Projects, u \in Parties : PayTrade(d, u)
    \/ \E d \in Projects, u \in Parties : MarkShipped(d, u)
    \/ \E d \in Projects, u \in Parties : ConfirmDelivery(d, u)
    \/ \E d \in Projects, u \in Parties : DeclineTrade(d, u)
    \/ \E d \in Projects, u \in Parties : CancelDeal(d, u)
    \/ \E d \in Projects : WebhookRead(DealEntity(d))
    \/ WebhookCommit
    \/ \E j \in JobNames : JobRead(j)
    \/ JobCommit

SpecCross == Init /\ [][NextCross]_vars

\* The rating keyboards of both deals pressed by either party, any number
\* of times, each rating the other party.
NextRating ==
    \E u \in Parties, d \in DealIds, r \in Ratings :
        RatingHandler(u, d, CHOOSE v \in Parties : v # u, r)

SpecRating == Init /\ [][NextRating]_vars

\* A milestone project under its client's deposits alone: the dialogue, any
\* number of deposits on any milestone, the payment events and the release.
NextDeposit ==
    \/ ConnectStripe("u2")
    \/ MilestoneAskTitle
    \/ \E a \in MilestoneAmounts : MilestoneAskLoop(a)
    \/ MilestoneFinish(1, "u1", "u2")
    \/ \E m \in MsIds, u \in Parties : DepositMilestone(m, u)
    \/ \E m \in MsIds, u \in Parties : ReleaseMilestone(m, u)
    \/ \E m \in MsIds : WebhookRead(MsEntity(m))
    \/ WebhookCommit

SpecDeposit == Init /\ [][NextDeposit]_vars

\* Two trades between the same seller and buyer, each taken through its
\* buttons in order (pay while pending, ship once funded, confirm once
\* shipped); either party can be referred by u3 at any time.
NextReferral ==
    \/ ConnectStripe("u1")
    \/ \E u \in Parties : Start(u, "u3")
    \/ \E d \in DealIds, a \in TradeAmounts : TradeAskAmount(d, "u1", "u2", a)
    \/ \E d \in TradeDeals : deals[d].status = "pending" /\ PayTrade(d, "u2")
    \/ \E d \in TradeDeals : WebhookRead(DealEntity(d))
    \/ WebhookCommit
    \/ \E d \in TradeDeals : deals[d].trade_status = "funded" /\ MarkShipped(d, "u1")
    \/ \E d \in TradeDeals : deals[d].trade_status = "shipped" /\ ConfirmDelivery(d, "u2")

SpecReferral == Init /\ [][NextReferral]_vars

\* The buyer u2 referred the seller u1.  Trade 1 is taken through its buttons
\* in order and paid; a later trade of the same buyer has its payment
\* initiated (while pending) and the checkout is then never completed: no
\* payment event arrives for it.
NextCredit ==
    \/ ConnectStripe("u1")
    \/ Start("u1", "u2")
    \/ \E d \in DealIds, a \in TradeAmounts : TradeAskAmount(d, "u1", "u2", a)
    \/ \E d \in TradeDeals : deals[d].status = "pending" /\ PayTrade(d, "u2")
    \/ WebhookRead(DealEntity(1))
    \/ WebhookCommit
    \/ deals[1].trade_status = "funded" /\ MarkShipped(1, "u1")
    \/ deals[1].trade_status = "shipped" /\ ConfirmDelivery(1, "u2")

SpecCredit == Init /\ [][NextCredit]_vars

\* One trade taken through its buttons in order, with disputes and the
\* admin's resolve command; a dispute is raised and a deadline fires only
\* after the payment was confirmed, and the gateway accepts every call.
NextResolve ==
    \/ ConnectStripe("u1")
    \/ \E a \in TradeAmounts : TradeAskAmount(1, "u1", "u2", a)
    \/ \E d \in TradeDeals : deals[d].status = "pending" /\ SendOffer(d, "u1")
    \/ \E d \in TradeDeals : deals[d].status = "pending" /\ PayTrade(d, "u2")
    \/ \E d \in TradeDeals : deals[d].trade_status = "funded" /\ MarkShipped(d, "u1")
    \/ \E d \in TradeDeals : /\ deals[d].trade_status = "shipped"
                             /\ ConfirmDelivery(d, "u2") /\ gw' # gw
    \/ \E d \in TradeDeals, u \in Parties :
          deals[d].payment_intent_id # NULL /\ DisputeProcessProof(d, u)
    \/ \E d \in TradeDeals : AdminResolve(d)
    \/ \E d \in TradeDeals : WebhookRead(DealEntity(d))
    \/ WebhookCommit
    \/ \E j \in JobNames : deals[j[2]].payment_intent_id # NULL /\ JobRead(j)
    \/ JobCommit /\ (bt[1] # "expire_offer" => gw' # gw)

SpecResolve == Init /\ [][NextResolve]_vars

\* One trade and one milestone project side by side, created in either
\* order: deals and milestones are numbered independently, so a milestone
\* and a deal can carry the same id.  The buyer pays the trade, the client
\* deposits milestones, and the admin sends /admin_refund with any id.
NextCollision ==
    \/ \E d \in DealIds, a \in TradeAmounts :
          TradeDeals = {} /\ conv.state = "idle" /\ TradeAskAmount(d, "u1", "u2", a)
    \/ Projects = {} /\ MilestoneAskTitle
    \/ \E a \in MilestoneAmounts : Projects = {} /\ MilestoneAskLoop(a)
    \/ \E d \in DealIds : MilestoneFinish(d, "u1", "u2")
    \/ \E d \in TradeDeals : deals[d].status = "pending" /\ PayTrade(d, "u2")
    \/ \E m \in MsIds : evt[MsEntity(m)] # "paid" /\ DepositMilestone(m, "u1")
    \/ \E e \in Entities : WebhookRead(e)
    \/ WebhookCommit
    \/ \E id \in DealIds \cup MsIds : AdminRefund(id)

SpecCollision == Init /\ [][NextCollision]_vars

\* =============================================================== claims

\* A commit step of the webhook thread, of a scheduled job.
WebhookCommits == wh # WhIdle /\ wh' = WhIdle
JobCommits == bt # BtIdle /\ bt' = BtIdle

\* C1: the gateway receives at most one transfer to the initiator and at most
\* one refund to the counterparty for a trade, whatever the sequence of party
\* actions, payment events and deadline firings.
C1_AtMostOnceEffects ==
    \A d \in TradeDeals : gw.deal[d].transfers <= 1 /\ gw.deal[d].refunds <= 1

\* C2: in every reachable state a deal has at most one live deadline.
C2_OneLiveDeadline == \A d \in DealIds : LiveJobs(jobs, d) <= 1

\* C3: a payment-confirmation event delivered to an entity that already holds
\* the event's payment reference (a second delivery) changes no field of the
\* deal or milestone and touches no deadline.
C3_ReconcileIdempotent ==
    [][WebhookCommits =>
          /\ wh[1] = "deal" /\ deals[wh[2]].payment_intent_id # NULL
                => deals'[wh[2]] = deals[wh[2]] /\ jobs' = jobs
          /\ wh[1] = "milestone" /\ milestones[wh[2]].payment_intent_id # NULL
                => milestones'[wh[2]] = milestones[wh[2]]]_vars

\* A party-triggered transition other than raise_dispute, on deal d.
PartyTransition(d, u) ==
    \/ SendOffer(d, u) \/ PayTrade(d, u) \/ MarkShipped(d, u)
    \/ ConfirmDelivery(d, u) \/ DeclineTrade(d, u) \/ CancelDeal(d, u)
    \/ \E m \in MilestonesOf(d) : DepositMilestone(m, u) \/ ReleaseMilestone(m, u)

\* C4: while a deal is disputed, every party-triggered transition other than
\* raise_dispute changes no state, schedules no deadline and makes no
\* gateway call.
C4_DisputeLock ==
    [][\A d \in ExistingDeals, u \in Users :
          deals[d].status = "disputed" /\ PartyTransition(d, u) => UNCHANGED vars]_vars

\* C5: triggers racing on one deal are serialized: an effect is committed only
\* on a deal for which the guard of the committing trigger holds at that
\* moment (the trigger that lost the race observes a guard failure).
C5_Serialized ==
    [][/\ WebhookCommits => WebhookGuard(<<wh[1], wh[2]>>)
       /\ JobCommits => JobGuard(bt[1], deals[bt[2]])]_vars

\* Position of a status on pending -> funded -> disputed -> {completed, cancelled}.
StatusRank(status) ==
    CASE status = "pending" -> 0
      [] status = "funded" -> 1
      [] status = "disputed" -> 2
      [] OTHER -> 3

\* C6: a deal's status only moves forward; completed and cancelled are final;
\* the only backward step is disputed -> pending by admin resolve.
C6_StatusMonotonic ==
    [][\A d \in ExistingDeals :
          deals'[d].status # deals[d].status =>
              \/ StatusRank(deals'[d].status) > StatusRank(deals[d].status)
              \/ /\ deals[d].status = "disputed" /\ deals'[d].status = "pending"
                 /\ AdminResolve(d)]_vars

\* Referrals of referrer r whose reward is claimed in this step.
AwardedNow(r) ==
    {u \in Users : /\ referrals[u].referrer_id = r
                   /\ ~referrals[u].reward_claimed
                   /\ referrals'[u].reward_claimed}

\* C7: a referral's reward is granted at most once: reward_claimed never goes
\* back to false, and a referrer's credit grows only in a step that claims
\* referrals of theirs, by one credit per referral claimed.
C7_RewardOnce ==
    [][/\ \A u \in Users :
             /\ referrals[u].reward_claimed => referrals'[u].reward_claimed
             /\ referrals[u].referrer_id # NULL
                   => referrals'[u].referrer_id = referrals[u].referrer_id
       /\ \A r \in Users :
             LET delta == users'[r].free_trades_remaining - users[r].free_trades_remaining
             IN IF AwardedNow(r) = {} THEN delta <= 0
                ELSE delta = Cardinality(AwardedNow(r))]_vars

\* C7 witness: the seller's referral is claimed, the buyer has none, the deal
\* was paid out twice (completion logic ran again) and the referrer holds the
\* one credit.
C7_Witness ==
    /\ referrals["u1"].reward_claimed
    /\ referrals["u2"].referrer_id = NULL
    /\ gw.deal[1].transfers = 2
    /\ deals[1].status = "completed"
    /\ users["u3"].free_trades_remaining = 1

\* C8: for every milestone project, total_amount equals the sum of its
\* milestones' amounts in every state after finalization, and no step adds or
\* removes a milestone of it or changes an amount or the total.
C8_TotalIsSum ==
    /\ [](\A d \in Projects : deals[d].total_amount = SumOver(MilestonesOf(d)))
    /\ [][\A d \in Projects :
             /\ deals'[d].total_amount = deals[d].total_amount
             /\ \A m \in MsIds :
                   (milestones[m].deal_id = d \/ milestones'[m].deal_id = d)
                       => /\ milestones'[m].deal_id = milestones[m].deal_id
                          /\ milestones'[m].amount = milestones[m].amount]_vars

\* C8 witness: a finalized project of two different milestones, one of them
\* funded and released, the other funded.
C8_Witness ==
    \E d \in Projects :
        /\ deals[d].total_amount = 100
        /\ Cardinality(MilestonesOf(d)) = 2
        /\ \E m \in MilestonesOf(d) : milestones[m].is_released /\ milestones[m].amount = 60
        /\ \E m \in MilestonesOf(d) : ~milestones[m].is_released
                                      /\ milestones[m].payment_intent_id # NULL

\* C9: a project becomes completed only by a release that leaves every
\* milestone released, never from a cancelled project and never with a
\* milestone whose released flag was set by a refund.
C9_CompletedByRelease ==
    [][\A d \in Projects :
          deals[d].status # "completed" /\ deals'[d].status = "completed" =>
              /\ deals[d].status # "cancelled"
              /\ AllReleased(milestones', d)
              /\ \A m \in MilestonesOf(d) : gw'.ms[m].refunds = 0]_vars

\* C10: a ship_by deadline firing on a trade in phase funded refunds the
\* counterparty and leaves status=cancelled, phase=refunded; a mark_shipped
\* after that changes neither the deal nor the job queue.
C10_ShipByThenMarkShipped ==
    [][\A d \in TradeDeals :
          /\ (/\ JobCommits /\ bt[1] = "check_unshipped_trades" /\ bt[2] = d
              /\ RefundOk(deals[d].payment_intent_id))
                => \/ /\ gw'.deal[d].refunds = gw.deal[d].refunds + 1
                      /\ deals'[d].trade_status = "refunded"
                   \/ UNCHANGED <<deals, gw>>
          /\ (/\ deals[d].status = "cancelled" /\ deals[d].trade_status = "refunded"
              /\ gw.deal[d].refunds > 0 /\ (\E u \in Users : MarkShipped(d, u)))
                => UNCHANGED <<deals, jobs>>]_vars

\* The trade after send_offer and then pay_trade, payment not yet confirmed.
HappyPaid(d) ==
    /\ deals[d].status = "pending" /\ deals[d].trade_status = NULL
    /\ deals[d].payment_intent_id = NULL
    /\ deals[d].auto_job_id = JobId("check_unshipped_trades", d)
    /\ jobs[JobId("check_unshipped_trades", d)] = 1
    /\ jobs[JobId("expire_offer", d)] = 1
    /\ jobs[JobId("check_unconfirmed_deliveries", d)] = 0
    /\ gw.deal[d] = NoCalls

\* ... funded, with the ship-by job as its registered deadline.
HappyFunded(d) ==
    /\ deals[d].status = "funded" /\ deals[d].trade_status = "funded"
    /\ deals[d].payment_intent_id # NULL
    /\ deals[d].auto_job_id = JobId("check_unshipped_trades", d)
    /\ jobs[JobId("check_unshipped_trades", d)] = 1
    /\ jobs[JobId("check_unconfirmed_deliveries", d)] = 0
    /\ gw.deal[d] = NoCalls

\* ... shipped, with the auto-release job in place of the ship-by job.
HappyShipped(d) ==
    /\ deals[d].status = "funded" /\ deals[d].trade_status = "shipped"
    /\ deals[d].payment_intent_id # NULL
    /\ deals[d].auto_job_id = JobId("check_unconfirmed_deliveries", d)
    /\ jobs[JobId("check_unconfirmed_deliveries", d)] = 1
    /\ jobs[JobId("check_unshipped_trades", d)] = 0
    /\ gw.deal[d] = NoCalls

\* ... completed: one transfer of the total to the seller, no refund.
HappyCompleted(d) ==
    /\ deals[d].status = "completed" /\ deals[d].trade_status = "completed"
    /\ gw.deal[d] = [transfers |-> 1, refunds |-> 0,
                     transferred |-> Cents(deals[d].total_amount), refunded |-> 0,
                     payee |-> deals[d].creator_id]

\* C11: trade happy path.  From a trade whose offer was sent and whose
\* checkout was opened, the payment confirmation leaves status=funded,
\* phase=funded with the ship-by deadline registered; mark_shipped by the
\* seller then leaves phase=shipped; confirm_delivery by the buyer then makes
\* exactly one transfer of the total to the seller and no refund and leaves
\* status=completed, phase=completed (or, when the transfer raises, leaves
\* the deal and the gateway log as they were).
C11_HappyPath ==
    [][\A d \in TradeDeals :
          /\ HappyPaid(d) /\ WebhookCommits /\ wh[1] = "deal" /\ wh[2] = d
                => HappyFunded(d)'
          /\ HappyFunded(d) /\ MarkShipped(d, deals[d].creator_id)
                => HappyShipped(d)'
          /\ HappyShipped(d) /\ ConfirmDelivery(d, deals[d].counterparty_id)
                => HappyCompleted(d)' \/ UNCHANGED <<deals, gw>>]_vars

\* C11 witness: the end of the happy path: paid out once in full, nothing
\* refunded, no ship-by or auto-release job left (the offer-expiry job of
\* send_offer is still queued).
C11_Witness ==
    \E d \in TradeDeals :
        /\ HappyCompleted(d)
        /\ deals[d].payment_intent_id # NULL
        /\ gw.deal[d].transferred = 100
        /\ jobs[JobId("expire_offer", d)] = 1
        /\ LiveJobs(jobs, d) = 1

\* C12: an admin split on a deal holding a payment reference, with
\* 0 <= seller_amount <= total, that gets all its gateway calls through
\* transfers seller_amount to the seller and refunds total - seller_amount to
\* the buyer, the two summing to the total, and sets status=completed (a call
\* that raises leaves the deal as it was); any other split changes nothing.
C12_Split ==
    [][\A d \in DealIds, a \in SplitAmounts :
          AdminSplitFunds(d, a) =>
              IF /\ d \in ExistingDeals /\ deals[d].payment_intent_id # NULL
                 /\ 0 <= a /\ a <= deals[d].total_amount
              THEN LET total == deals[d].total_amount
                       sent == gw'.deal[d].transferred - gw.deal[d].transferred
                       back == gw'.deal[d].refunded - gw.deal[d].refunded
                       calls == (gw'.deal[d].transfers - gw.deal[d].transfers)
                                + (gw'.deal[d].refunds - gw.deal[d].refunds)
                       due == (IF a > 0 THEN 1 ELSE 0) + (IF total - a > 0 THEN 1 ELSE 0)
                   IN IF calls = due
                      THEN /\ sent = Cents(a)
                           /\ sent + back = Cents(total)
                           /\ deals'[d].status = "completed"
                      ELSE deals' = deals
              ELSE UNCHANGED vars]_vars

\* Gateway calls a valid split of amount a on deal d has to make.
SplitDue(d, a) ==
    (IF a > 0 THEN 1 ELSE 0) + (IF deals[d].total_amount - a > 0 THEN 1 ELSE 0)

\* Gateway calls logged for deal d in this step.
CallsNow(d) ==
    (gw'.deal[d].transfers - gw.deal[d].transfers)
    + (gw'.deal[d].refunds - gw.deal[d].refunds)

Superseded(job_type, row) ==
    \/ job_type = "expire_offer" /\ row.status = "funded"
    \/ /\ job_type = "check_unshipped_trades"
       /\ row.trade_status = "shipped" \/ row.status = "disputed"
    \/ /\ job_type = "check_unconfirmed_deliveries"
       /\ row.status = "completed" \/ row.status = "disputed"

\* C14: a deadline of a paid deal that fires after the transition that
\* superseded it is stopped by the guard of its branch: the job picks no
\* branch, so it changes no state and issues no refund or transfer.
C14_LateDeadlineGuarded ==
    [][\A j \in JobNames :
          (/\ JobRead(j)
           /\ j[2] \in ExistingDeals
           /\ deals[j[2]].payment_intent_id # NULL
           /\ Superseded(j[1], deals[j[2]]))
              => bt' = BtIdle]_vars

\* C15: a deadline that is live when the process stops is still live after
\* the restart, or is fired at once: for every deal whose persisted
\* auto_job_id names a queued job, the restarted process has that job queued
\* or running.
C15_DeadlinesSurviveRestart ==
    [][Restart =>
          \A d \in ExistingDeals :
              LET j == deals[d].auto_job_id
              IN j # NoJob /\ jobs[j] > 0
                    => jobs'[j] > 0 \/ (bt'[1] = j[1] /\ bt'[2] = d)]_vars

\* C16: a trade or milestone button pressed by anyone but the party it
\* belongs to has no effect: send_offer, mark_shipped, cancel_deal,
\* deposit_milestone and release_milestone by someone other than the deal's
\* creator, and pay_trade, confirm_delivery and decline_trade by someone
\* other than the counterparty, leave every deal, milestone, user and queued
\* job unchanged and make no gateway call.
C16_Unauthorized ==
    [][/\ \A d \in TradeDeals, u \in Users :
             /\ u # deals[d].creator_id =>
                   ~(SendOffer(d, u) \/ MarkShipped(d, u) \/ CancelDeal(d, u))
             /\ u # deals[d].counterparty_id =>
                   ~(PayTrade(d, u) \/ ConfirmDelivery(d, u) \/ DeclineTrade(d, u))
       /\ \A m \in ExistingMilestones, u \in Users :
             u # deals[milestones[m].deal_id].creator_id =>
                   ~(DepositMilestone(m, u) \/ ReleaseMilestone(m, u))]_vars

\* C16 witness: a funded trade whose seller can be paid and whose ship-by
\* deadline is queued, with the bot idle: mark_shipped, confirm_delivery and
\* the other buttons would act for the right sender and are open to the
\* wrong one.
C16_Witness ==
    \E d \in TradeDeals :
        /\ deals[d].status = "funded" /\ deals[d].trade_status = "funded"
        /\ users[deals[d].creator_id].stripe_account_id # NULL
        /\ jobs[JobId("check_unshipped_trades", d)] > 0
        /\ ENABLED MarkShipped(d, deals[d].counterparty_id)
        /\ ENABLED ConfirmDelivery(d, deals[d].creator_id)

\* C17: whenever a trade has status funded and phase funded, no offer-expiry
\* deadline is queued for it and a ship-by deadline is.
C17_FundedDeadlines ==
    \A d \in TradeDeals :
        deals[d].status = "funded" /\ deals[d].trade_status = "funded"
            => /\ jobs[JobId("expire_offer", d)] = 0
               /\ jobs[JobId("check_unshipped_trades", d)] > 0

\* C18: a dispute raised by a party on a paid trade whose status is not
\* funded is rejected: the status stays what it was and no Dispute row is
\* added (no second Dispute on a disputed deal, no status change on a
\* completed or cancelled one).
C18_RaiseDisputeGuard ==
    [][\A d \in TradeDeals, u \in Parties :
          (/\ DisputeProcessProof(d, u)
           /\ deals[d].payment_intent_id # NULL
           /\ deals[d].status # "funded")
              => deals'[d].status = deals[d].status /\ disputes'[d] = disputes[d]]_vars

\* C19: in every state where a paid deal's status is disputed, no deadline
\* is queued for that deal.
C19_DisputedNoDeadline ==
    \A d \in ExistingDeals :
        deals[d].status = "disputed" /\ deals[d].payment_intent_id # NULL
            => LiveJobs(jobs, d) = 0

\* C20: admin resolve on a disputed deal sets its status to pending and
\* leaves its trade phase, payment reference and total amount and every
\* milestone as they were; on a deal in any other status it changes nothing.
C20_AdminResolve ==
    [][\A d \in ExistingDeals :
          AdminResolve(d) =>
              /\ deals[d].status = "disputed"
              /\ deals' = [deals EXCEPT ![d].status = "pending"]
              /\ milestones' = milestones]_vars

\* C20 witness: a paid deal back in status pending with its Dispute row:
\* admin resolve has acted on the disputed deal.
C20_Witness ==
    \E d \in ExistingDeals :
        /\ deals[d].status = "pending"
        /\ deals[d].trade_status = "funded"
        /\ deals[d].payment_intent_id # NULL
        /\ disputes[d] > 0

\* A milestone the administrator refunded: its refund is in the gateway log,
\* it carries the released marker and its deal is cancelled.
AdminRefunded(m) ==
    /\ m \in ExistingMilestones
    /\ gw.ms[m].refunds > 0
    /\ milestones[m].is_released
    /\ deals[milestones[m].deal_id].status = "cancelled"

\* C21: once a funded milestone was refunded by the administrator, a
\* release_milestone on that milestone issues no transfer and leaves the
\* deal's status cancelled.
C21_RefundedMilestoneFinal ==
    [][\A m \in MsIds, u \in Users :
          AdminRefunded(m) /\ ReleaseMilestone(m, u) =>
              /\ gw'.ms[m].transfers = gw.ms[m].transfers
              /\ deals'[milestones[m].deal_id].status = "cancelled"]_vars

\* The fee the claim names: the percentage of the amount in the smallest
\* currency unit (the whole cents charged), rounded down.
FeeOfChargedCents(amount, percent) == (Cents(amount) * percent) \div 100

\* C22: when the buyer presses pay, the fee is 0 and no credit is used if
\* the buyer has no completed deal; else one credit is used and the fee is 0
\* if the buyer has a credit; else the fee is the percentage of the amount
\* in cents, rounded down.  The credit balance never goes below 0.
C22_FeeAndCredit ==
    [][\A d \in TradeDeals :
          LET buyer == deals[d].counterparty_id
              n == CompletedDealsCount(deals, buyer)
              c == users[buyer].free_trades_remaining
          IN PayTrade(d, buyer) =>
                /\ n = 0 => app_fee'[d] = 0 /\ users' = users
                /\ n > 0 /\ c > 0 =>
                      /\ app_fee'[d] = 0
                      /\ users'[buyer].free_trades_remaining = c - 1
                /\ n > 0 /\ c = 0 =>
                      /\ app_fee'[d] = FeeOfChargedCents(deals[d].total_amount,
                                                        PLATFORM_FEE_PERCENT)
                      /\ users' = users
                /\ users'[buyer].free_trades_remaining >= 0]_vars

\* C23: a referral reward is granted only on the referred party's first
\* completed deal: when a referral becomes claimed, the party it belongs to
\* was referred and has exactly one completed deal.
C23_FirstCompletedOnly ==
    [][\A u \in Users :
          ~referrals[u].reward_claimed /\ referrals'[u].reward_claimed
              => /\ referrals[u].referrer_id # NULL
                 /\ CompletedDealsCount(deals', u) = 1]_vars

\* A party of deal d whose referral is due: referred, unclaimed.
ReferralDue(d, u) ==
    /\ u \in {deals[d].creator_id, deals[d].counterparty_id}
    /\ referrals[u].referrer_id # NULL
    /\ ~referrals[u].reward_claimed

\* C24: the referral check runs when the auto-release deadline completes a
\* deal: for each party of the deal with an unclaimed referral and no
\* completed deal before, the referral is claimed and the referrer credited
\* once the job has committed.
C24_ReferralOnJobCompletion ==
    [][\A d \in TradeDeals, u \in Users :
          (/\ JobCommits
           /\ deals[d].payment_intent_id # NULL
           /\ deals[d].status # "completed" /\ deals'[d].status = "completed"
           /\ ReferralDue(d, u)
           /\ CompletedDealsCount(deals, u) = 0)
              => /\ referrals'[u].reward_claimed
                 /\ users'[referrals[u].referrer_id].free_trades_remaining
                        = users[referrals[u].referrer_id].free_trades_remaining + 1]_vars

\* C25: send_offer acts only on a pending trade whose phase is null and
\* whose offer was not sent before; on any other deal the seller's button
\* schedules no payment deadline and leaves auto_job_id as it was.
C25_SendOfferGuard ==
    [][\A d \in TradeDeals :
          (/\ SendOffer(d, deals[d].creator_id)
           /\ \/ deals[d].status # "pending"
              \/ deals[d].trade_status # NULL
              \/ deals[d].auto_job_id # NoJob)
              => /\ jobs' = jobs
                 /\ deals'[d].auto_job_id = deals[d].auto_job_id]_vars

\* C26: decline_trade acts only on a pending trade; on a funded, disputed,
\* completed or cancelled deal the buyer's button changes nothing.
C26_DeclineGuard ==
    [][\A d \in TradeDeals :
          (/\ DeclineTrade(d, deals[d].counterparty_id)
           /\ deals[d].payment_intent_id # NULL
           /\ deals[d].status \in {"funded", "disputed", "completed", "cancelled"})
              => /\ deals' = deals
                 /\ jobs' = jobs]_vars

\* C27: confirm_delivery acts only on a trade whose phase is shipped; in any
\* other phase the buyer's button transfers nothing, cancels no deadline and
\* changes no field of the deal.
C27_ConfirmDeliveryGuard ==
    [][\A d \in TradeDeals :
          (/\ ConfirmDelivery(d, deals[d].counterparty_id)
           /\ deals[d].payment_intent_id # NULL
           /\ deals[d].trade_status # "shipped")
              => /\ gw' = gw
                 /\ jobs' = jobs
                 /\ deals' = deals]_vars

\* C28: release_milestone transfers only for a funded milestone that is not
\* yet released: the client's release of an unfunded milestone, or of one
\* already released, sends nothing to the gateway and changes no row.
C28_ReleaseGuard ==
    [][\A m \in MsIds :
          (/\ m \in ExistingMilestones
           /\ ReleaseMilestone(m, deals[milestones[m].deal_id].creator_id)
           /\ \/ milestones[m].payment_intent_id = NULL
              \/ milestones[m].is_released)
              => /\ gw' = gw
                 /\ milestones' = milestones
                 /\ deals' = deals]_vars

\* C29: deposit_milestone opens a checkout session only for an unfunded
\* milestone: the client's deposit on a milestone that holds a payment
\* reference, released or not, creates no new payable session.
C29_DepositGuard ==
    [][\A m \in MsIds :
          (/\ m \in ExistingMilestones
           /\ DepositMilestone(m, deals[milestones[m].deal_id].creator_id)
           /\ milestones[m].payment_intent_id # NULL)
              => evt' = evt]_vars

\* C30: a deadline firing that took effect (its branch committed, or its
\* refund or transfer reached the gateway) leaves the deal where the guard of
\* that firing is false, so the same firing delivered again right after it
\* takes no branch: the deal stays as one delivery left it and the refund or
\* transfer is not issued a second time.
C30_FiringIdempotent ==
    [][(JobCommits /\ (deals' # deals \/ gw' # gw))
          => /\ ~JobGuard(bt[1], deals'[bt[2]])
             /\ GwCalls(gw', bt[2]) <= GwCalls(gw, bt[2]) + 1]_vars

\* A ship-by firing refunded the buyer once and a second job of the same
\* name is still queued, due next.
C30_Witness ==
    \E d \in TradeDeals :
        /\ deals[d].trade_status = "refunded"
        /\ gw.deal[d].refunds = 1
        /\ jobs[JobId("check_unshipped_trades", d)] > 0
        /\ ENABLED JobRead(JobId("check_unshipped_trades", d))

\* C31: a payment-confirmation event whose deal (for a milestone event: the
\* milestone's project, every released milestone of which was funded) is
\* already completed or cancelled changes no deal and no milestone; it
\* records no payment reference.
C31_TerminalEventIgnored ==
    [][\A d \in ExistingDeals :
          (/\ WebhookCommits
           /\ d = (IF wh[1] = "milestone" THEN milestones[wh[2]].deal_id ELSE wh[2])
           /\ deals[d].status \in {"completed", "cancelled"}
           /\ \A m \in MilestonesOf(d) :
                  milestones[m].is_released => milestones[m].payment_intent_id # NULL)
              => /\ deals' = deals
                 /\ milestones' = milestones]_vars

\* C32: at most one Review exists for a deal and a reviewer, and a
\* submission by a reviewer who already reviewed the deal adds no review and
\* changes no stored rating.
C32_ReviewUnique ==
    /\ [](\A i, j \in 1..Len(reviews) :
             (/\ reviews[i].deal_id = reviews[j].deal_id
              /\ reviews[i].reviewer_id = reviews[j].reviewer_id) => i = j)
    /\ [][\A u \in Parties, d \in DealIds :
             (\E i \in 1..Len(reviews) :
                 reviews[i].deal_id = d /\ reviews[i].reviewer_id = u)
                 => \A i \in 1..Len(reviews) :
                       (reviews[i].deal_id = d /\ reviews[i].reviewer_id = u)
                           => /\ Len(reviews') >= i
                              /\ reviews'[i] = reviews[i]
                              /\ \A j \in 1..Len(reviews') :
                                    (/\ reviews'[j].deal_id = d
                                     /\ reviews'[j].reviewer_id = u) => j = i]_vars

\* Both parties reviewed deal 1 and one of them also reviewed deal 2: the
\* table is full and every rating button of deal 1 was already used.
C32_Witness ==
    /\ Len(reviews) = MaxReviews
    /\ \A u \in Parties : existing_review(reviews, 1, u)
    /\ \E u \in Parties : existing_review(reviews, 2, u)
    /\ \A u \in Parties, r \in Ratings :
          ENABLED RatingHandler(u, 1, CHOOSE v \in Parties : v # u, r)

\* Whole cents collected for deal d: the total of a trade that holds a
\* payment reference, the amounts of the funded milestones of a project.
RECURSIVE FundedCents(_)
FundedCents(S) ==
    IF S = {} THEN 0
    ELSE LET m == CHOOSE x \in S : TRUE
         IN (IF milestones[m].payment_intent_id # NULL THEN Cents(milestones[m].amount) ELSE 0)
            + FundedCents(S \ {m})

Collected(d) ==
    IF deals[d].deal_type = "trade"
    THEN (IF deals[d].payment_intent_id # NULL THEN Cents(deals[d].total_amount) ELSE 0)
    ELSE FundedCents(MilestonesOf(d))

\* Whole cents the gateway sent out for deal d, transfers and refunds.
RECURSIVE MsOutCents(_)
MsOutCents(S) ==
    IF S = {} THEN 0
    ELSE LET m == CHOOSE x \in S : TRUE
         IN gw.ms[m].transferred + gw.ms[m].refunded + MsOutCents(S \ {m})

SentOut(d) == gw.deal[d].transferred + gw.deal[d].refunded + MsOutCents(MilestonesOf(d))

\* C33: for every deal, what was transferred out plus what was refunded
\* never exceeds what was collected for it (nothing for a deal without a
\* payment reference).
C33_FundConservation == \A d \in ExistingDeals : SentOut(d) <= Collected(d)

\* C34: in every state, a trade that holds a payment reference and has
\* status cancelled has had a refund issued for it.
C34_CancelledIsRefunded ==
    \A d \in TradeDeals :
        deals[d].payment_intent_id # NULL /\ deals[d].status = "cancelled"
            => gw.deal[d].refunds > 0

\* C35: status and phase of a trade agree in every state: phase completed
\* only with status completed, phase refunded only with status cancelled,
\* status funded only with phase funded or shipped and a payment reference;
\* and no step sets phase funded or shipped on a deal whose status is
\* completed or cancelled.
C35_StatusPhaseConsistent ==
    /\ [](\A d \in TradeDeals :
             /\ deals[d].trade_status = "completed" => deals[d].status = "completed"
             /\ deals[d].trade_status = "refunded" => deals[d].status = "cancelled"
             /\ deals[d].status = "funded"
                   => /\ deals[d].trade_status \in {"funded", "shipped"}
                      /\ deals[d].payment_intent_id # NULL)
    /\ [][\A d \in TradeDeals :
             (/\ deals[d].status \in {"completed", "cancelled"}
              /\ deals'[d].trade_status # deals[d].trade_status)
                 => deals'[d].trade_status \notin {"funded", "shipped"}]_vars

\* C36: a milestone project keeps a null phase, never has an offer-expiry,
\* ship-by or delivery deadline queued under its id, and no trade button
\* addressed to it makes the gateway transfer its total.
C36_ProjectNoTradeActions ==
    \A d \in Projects :
        /\ deals[d].trade_status = NULL
        /\ \A t \in JobTypes : jobs[JobId(t, d)] = 0
        /\ gw.deal[d].transfers = 0

\* Credits granted to u so far (one per claimed referral made by u), and
\* how many of them are gone from u's balance.
CreditsAwarded(u) ==
    Cardinality({v \in Users : /\ referrals[v].referrer_id = u
                               /\ referrals[v].reward_claimed})
CreditsConsumed(u) == CreditsAwarded(u) - users[u].free_trades_remaining

\* The funded trades of buyer u on which a credit can have been spent: u has
\* another deal that is completed (a buyer's first escrow takes no credit).
CreditTrades(u) ==
    {d \in TradeDeals : /\ deals[d].counterparty_id = u
                        /\ deals[d].payment_intent_id # NULL
                        /\ \E e \in ExistingDeals \ {d} :
                              /\ u \in {deals[e].creator_id, deals[e].counterparty_id}
                              /\ deals[e].status = "completed"}

\* C37: a buyer's credit balance goes down by at most one per trade and only
\* for a trade that became funded: the credits gone from the balance never
\* exceed the number of the buyer's funded trades that could take one, so
\* initiating a payment that is never completed costs no credit.
C37_CreditOnlyWhenFunded ==
    \A u \in Users : CreditsConsumed(u) <= Cardinality(CreditTrades(u))

\* C38: every trade with a payment reference whose status is neither
\* disputed nor completed nor cancelled (one reopened by the admin's resolve
\* included) has a deadline queued under its id, whenever no deadline is
\* just firing.
C38_FundedHasDeadline ==
    \A d \in TradeDeals :
        (/\ BotFree
         /\ deals[d].payment_intent_id # NULL
         /\ deals[d].status \notin {"disputed", "completed", "cancelled"})
            => LiveJobs(jobs, d) > 0

\* C39: an admin refund addressed to a funded trade by its deal id, accepted
\* by the gateway, refunds that deal's own payment and sets that deal to
\* status cancelled and phase refunded; it refunds no milestone and changes no
\* other deal, whatever milestones exist.
C39_AdminRefundOwnDeal ==
    [][\A d \in TradeDeals :
          (/\ deals[d].status = "funded"
           /\ deals[d].payment_intent_id # NULL
           /\ AdminRefund(d)
           /\ gw' # gw)
              => /\ gw'.deal[d].refunds = gw.deal[d].refunds + 1
                 /\ deals'[d].status = "cancelled"
                 /\ deals'[d].trade_status = "refunded"
                 /\ gw'.ms = gw.ms
                 /\ \A e \in DealIds \ {d} : deals'[e] = deals[e]]_vars

====
